---- MODULE Spec2Model ----
(***************************************************************************)
(* Model of the `cancellable` crate: the work loop that                    *)
(* Cancellable::spawn_with_callback runs on a background task, the         *)
(* CancellableHandle it returns, and the cancellation token the loop races *)
(* against.                                                                *)
(*                                                                         *)
(* The service (run / new_handle) and the callback are user code: every    *)
(* run() invocation may suspend, return Item(v), Continue, Break or Err(e),*)
(* or panic; a caller-supplied callback may accept, reject or panic.       *)
(***************************************************************************)
EXTENDS Integers, Sequences, FiniteSets, TLC

\* ------------------------------------------------------------------ bounds
MaxRuns == 3        \* run() invocations explored per service
NumValues == 2      \* distinct values of Self::Result
NumErrors == 2      \* distinct values of Self::Error
MaxSends == 3       \* send() calls explored on the channel-backed service

Values == 1..NumValues
Errors == 1..NumErrors

\* ------------------------------------------------------- values of the code
Pending == <<"Pending">>            \* a result that does not exist yet
OkUnit == <<"Ok">>                  \* Ok(())
ErrOf(e) == <<"Err", e>>            \* Err(e)
Item(v) == <<"Item", v>>            \* Ok(CancellationResult::Item(v))
Continue == <<"Continue">>          \* Ok(CancellationResult::Continue)
Break == <<"Break">>                \* Ok(CancellationResult::Break)
item(t) == Item(t)                  \* CancellationResult::item(t)

\* Everything one run() invocation can return.
RunResults == {Item(v) : v \in Values} \cup {Continue, Break}
                \cup {ErrOf(e) : e \in Errors}

\* Everything one callback invocation can return: Ok(()) or Err(value).
CallbackReturns(v) == {OkUnit, ErrOf(v)}

\* ------------------------------------------------------------------ tokens
\* The token handed to spawn is either a root token or, as in the examples,
\* a child_token() of a token the caller keeps.
TokenIds == {"parent", "spawn"}
ParentOf(t) == IF t = "spawn" THEN "parent" ELSE "none"

\* The token the select! of the work loop awaits (moved into the task).
LoopToken == "spawn"

\* The token stored in the CancellableHandle that spawn returns.
HandleToken == "spawn"

\* ----------------------------------------------------------------- channel
\* unbounded_channel() of the channel-backed service, with the history of
\* what was sent and received: nothing queued, nothing sent or received.
EmptyChan == [queue |-> <<>>, sent |-> <<>>, consumed |-> <<>>,
              last_send |-> <<>>, attempts |-> 0]

\* Items are i32.
MaxI32 == 2147483647
HalfI32 == MaxI32 \div 2 + 1

\* Items the caller sends: a negative one, zero, small positive ones and
\* the smallest positive one whose double does not fit an i32.
SendItems == {-1, 0, 1, 2, HalfI32}

\* `item * 2` on i32: the product, or on overflow a panic (overflow checks
\* on) or the wrapped product (overflow checks off).
TimesTwo(n) ==
    IF n < HalfI32
    THEN {<<"value", n * 2>>}
    ELSE {<<"panic">>, <<"value", ((n - HalfI32) - HalfI32) * 2>>}

VARIABLES
    pc,                \* position of the service / background task
    run_state,         \* "idle": no run() future polled; "suspended": pending
    cb_arg,            \* <<v>> while the callback runs with v, else <<>>
    outcome,           \* value returned by the task's async block
    cancelled,         \* [TokenIds -> BOOLEAN]
    handle,            \* "none" | "held" | "dropped" | "awaited"
    awaited,           \* Output of the CancellableHandle future
    mode,              \* "none" | "spawn" | "spawn_with_callback"
    new_handle_calls,  \* invocations of new_handle()
    run_calls,         \* invocations of run()
    results,           \* history: values returned by run(), in order
    passed,            \* history: values the callback returned for, in order
    rejected,          \* history: <<v>> once the callback returned Err(v)
    first_cancel,      \* history: first cancellation, <<source, pc, run_state>>
    dropped_at,        \* history: run_calls when the handle was dropped, or -1
    in_flight,         \* run() futures that were polled and still exist
    inner,             \* CancellableHandle::inner: <<id>> of the handle, or <<>>
    chan               \* the service's input channel and its history

vars == <<pc, run_state, cb_arg, outcome, cancelled, handle, awaited, mode,
          new_handle_calls, run_calls, results, passed, rejected,
          first_cancel, dropped_at, in_flight, inner, chan>>

Stopped == {"done", "panicked"}

\* ------------------------------------------------------------------- state
Init ==
    /\ pc = "created"
    /\ run_state = "idle"
    /\ cb_arg = <<>>
    /\ outcome = Pending
    /\ cancelled = [t \in TokenIds |-> FALSE]
    /\ handle = "none"
    /\ awaited = Pending
    /\ mode = "none"
    /\ new_handle_calls = 0
    /\ run_calls = 0
    /\ results = <<>>
    /\ passed = <<>>
    /\ rejected = <<>>
    /\ first_cancel = <<>>
    /\ dropped_at = -1
    /\ in_flight = 0
    /\ inner = <<>>
    /\ chan = EmptyChan

\* CancellationToken::cancel: sets the token and every token derived from it.
CancelToken(t) ==
    [x \in TokenIds |-> cancelled[x] \/ x = t \/ ParentOf(x) = t]

\* Variants of the match with one arm changed.
MatchResult_SwallowsErr(r) ==
    CASE r[1] = "Item" ->
            [pc |-> "callback", arg |-> <<r[2]>>, out |-> Pending]
      [] r[1] = "Continue" ->
            [pc |-> "select", arg |-> <<>>, out |-> Pending]
      [] OTHER ->
            [pc |-> "done", arg |-> <<>>, out |-> OkUnit]

MatchResult_BreakLoopsOn(r) ==
    CASE r[1] = "Item" ->
            [pc |-> "callback", arg |-> <<r[2]>>, out |-> Pending]
      [] r[1] \in {"Continue", "Break"} ->
            [pc |-> "select", arg |-> <<>>, out |-> Pending]
      [] r[1] = "Err" ->
            [pc |-> "done", arg |-> <<>>, out |-> ErrOf(r[2])]

MatchResult_SkipsItem(r) ==
    CASE r[1] \in {"Item", "Continue"} ->
            [pc |-> "select", arg |-> <<>>, out |-> Pending]
      [] r[1] = "Break" ->
            [pc |-> "done", arg |-> <<>>, out |-> OkUnit]
      [] r[1] = "Err" ->
            [pc |-> "done", arg |-> <<>>, out |-> ErrOf(r[2])]

MatchResult_ContinueBreaks(r) ==
    CASE r[1] = "Item" ->
            [pc |-> "callback", arg |-> <<r[2]>>, out |-> Pending]
      [] r[1] \in {"Continue", "Break"} ->
            [pc |-> "done", arg |-> <<>>, out |-> OkUnit]
      [] r[1] = "Err" ->
            [pc |-> "done", arg |-> <<>>, out |-> ErrOf(r[2])]

MatchResult_ErrKeepsLooping(r) ==
    CASE r[1] = "Item" ->
            [pc |-> "callback", arg |-> <<r[2]>>, out |-> Pending]
      [] r[1] = "Continue" ->
            [pc |-> "select", arg |-> <<>>, out |-> Pending]
      [] r[1] = "Break" ->
            [pc |-> "done", arg |-> <<>>, out |-> OkUnit]
      [] r[1] = "Err" ->
            [pc |-> "select", arg |-> <<>>, out |-> ErrOf(r[2])]

MatchResult_ReplacesErr(r) ==
    CASE r[1] = "Item" ->
            [pc |-> "callback", arg |-> <<r[2]>>, out |-> Pending]
      [] r[1] = "Continue" ->
            [pc |-> "select", arg |-> <<>>, out |-> Pending]
      [] r[1] = "Break" ->
            [pc |-> "done", arg |-> <<>>, out |-> OkUnit]
      [] r[1] = "Err" ->
            [pc |-> "done", arg |-> <<>>, out |-> ErrOf(1)]

\* The match on the value run() returned: where the loop goes next.
MatchResult(r) ==
    CASE r[1] = "Item" ->
            [pc |-> "callback", arg |-> <<r[2]>>, out |-> Pending]
      [] r[1] = "Continue" ->
            [pc |-> "select", arg |-> <<>>, out |-> Pending]
      [] r[1] = "Break" ->
            [pc |-> "done", arg |-> <<>>, out |-> OkUnit]
      [] r[1] = "Err" ->
            [pc |-> "done", arg |-> <<>>, out |-> ErrOf(r[2])]

\* Variant: a rejection does not break out of the loop.
MatchCallback_IgnoresErr(ret) == [pc |-> "select", out |-> Pending]

\* Variant: the loop ends after the first value, accepted or not.
MatchCallback_AcceptBreaks(ret) == [pc |-> "done", out |-> OkUnit]

\* `if let Err(_result) = callback(result) { break }`, then `Ok(())`.
MatchCallback(ret) ==
    IF ret[1] = "Err"
    THEN [pc |-> "done", out |-> OkUnit]
    ELSE [pc |-> "select", out |-> Pending]

\* Variant: the callback of `spawn` may reject a value.
CallbackChoices_DefaultMayReject(v) == CallbackReturns(v)

\* The callback of `spawn` is |_| Ok(()); a caller's callback may return either.
CallbackChoices(v) ==
    IF mode = "spawn" THEN {OkUnit} ELSE CallbackReturns(v)

\* Variant: the handle cancels its token when dropped (a drop guard).
DropTokens_Cancels == [x \in TokenIds |-> cancelled[x] \/ x = HandleToken]

\* What dropping the handle does to the tokens: the struct has no Drop impl.
DropTokens == cancelled

\* Variant: a panicked task is reported as a clean, successful one.
JoinOutput_HidesPanic ==
    IF pc = "panicked" THEN <<"Ok", OkUnit>> ELSE <<"Ok", outcome>>

\* Deref / DerefMut of the handle: the inner handle.
Deref == inner

\* Poll of the handle = poll of the JoinHandle.
JoinOutput == IF pc = "panicked" THEN <<"JoinError">> ELSE <<"Ok", outcome>>

\* Variant: spawn_with_callback asks the service for a handle twice.
CallNewHandle_Twice(n) == n + 2

\* `self.new_handle().await`, once: n invocations before, n + 1 after; the
\* handle it returns is named after the invocation that made it.
CallNewHandle(n) == n + 1

\* Variant: a new run() is started while the previous one is still pending.
CanStartRun_Always == TRUE

\* The loop body calls self.run() once per select!, and only after the
\* select! of the previous iteration has finished.
CanStartRun == run_state = "idle"

\* Variant: the run() that lost the race is left running.
Abandon_KeepsRunning(n) == n

\* A select! that leaves through the cancelled() branch drops the run()
\* future it raced against: of n futures none is left.
Abandon(n) == 0

\* ----------------------------------------------------------------- actions
\* spawn(token) / spawn_with_callback(token, callback).
Spawn ==
    /\ pc = "created"
    /\ \E m \in {"spawn", "spawn_with_callback"} : mode' = m
    /\ new_handle_calls' = CallNewHandle(new_handle_calls)
    /\ inner' = <<CallNewHandle(new_handle_calls)>>
    /\ handle' = "held"
    /\ pc' = "select"
    /\ UNCHANGED <<run_state, cb_arg, outcome, cancelled, awaited, run_calls,
                   results, passed, rejected, first_cancel, dropped_at,
                   in_flight, chan>>

NoteCancel(src, t) ==
    first_cancel' = IF first_cancel = <<>> /\ ~cancelled[LoopToken]
                       /\ CancelToken(t)[LoopToken]
                    THEN <<src, pc, run_state>> ELSE first_cancel

\* The caller cancels its clone of the token it passed to spawn.
TokenCancel ==
    /\ cancelled' = CancelToken(LoopToken)
    /\ NoteCancel("token", LoopToken)
    /\ UNCHANGED <<pc, run_state, cb_arg, outcome, handle, awaited, mode,
                   new_handle_calls, run_calls, results, passed, rejected,
                   dropped_at,
                   in_flight, inner, chan>>

\* The caller cancels the token the spawn token was derived from.
ParentCancel ==
    /\ cancelled' = CancelToken("parent")
    /\ NoteCancel("parent", "parent")
    /\ UNCHANGED <<pc, run_state, cb_arg, outcome, handle, awaited, mode,
                   new_handle_calls, run_calls, results, passed, rejected,
                   dropped_at,
                   in_flight, inner, chan>>

\* CancellableHandle::cancel.
HandleCancel ==
    /\ handle = "held"
    /\ cancelled' = CancelToken(HandleToken)
    /\ NoteCancel("handle", HandleToken)
    /\ UNCHANGED <<pc, run_state, cb_arg, outcome, handle, awaited, mode,
                   new_handle_calls, run_calls, results, passed, rejected,
                   dropped_at,
                   in_flight, inner, chan>>

\* The select! takes the cancelled() branch: break, then Ok(()).
\* The run() future of this race, polled or not, is dropped.
CancelBranch ==
    /\ pc = "select"
    /\ cancelled[LoopToken]
    /\ pc' = "done"
    /\ outcome' = OkUnit
    /\ run_state' = "idle"
    /\ in_flight' = Abandon(in_flight)
    /\ UNCHANGED <<cb_arg, cancelled, handle, awaited, mode, new_handle_calls,
                   run_calls, results, passed, rejected, first_cancel,
                   dropped_at,
                   inner, chan>>

\* The loop acts on the value r that run() returned.
Process(r) ==
    /\ results' = Append(results, r)
    /\ pc' = MatchResult(r).pc
    /\ cb_arg' = MatchResult(r).arg
    /\ outcome' = MatchResult(r).out
    /\ run_state' = "idle"

\* The select! polls a fresh run() first and it returns r without suspending.
RunReady ==
    /\ pc = "select"
    /\ CanStartRun
    /\ run_calls < MaxRuns
    /\ run_calls' = run_calls + 1
    /\ \E r \in RunResults : Process(r)
    /\ UNCHANGED <<cancelled, handle, awaited, mode, new_handle_calls, passed,
                   rejected, first_cancel, dropped_at,
                   in_flight, inner, chan>>

\* The select! polls a fresh run() and it suspends; the same poll also polls
\* cancelled(), so a token that is already set ends the loop here.
RunSuspends ==
    /\ pc = "select"
    /\ CanStartRun
    /\ run_calls < MaxRuns
    /\ run_calls' = run_calls + 1
    /\ IF cancelled[LoopToken]
       THEN /\ pc' = "done" /\ outcome' = OkUnit /\ run_state' = "idle"
            /\ in_flight' = Abandon(in_flight + 1)
       ELSE /\ pc' = pc /\ outcome' = outcome /\ run_state' = "suspended"
            /\ in_flight' = in_flight + 1
    /\ UNCHANGED <<cb_arg, cancelled, handle, awaited, mode, new_handle_calls,
                   results, passed, rejected, first_cancel, dropped_at,
                   inner, chan>>

\* The suspended run() is woken and returns r.
RunResumes ==
    /\ in_flight > 0
    /\ in_flight' = in_flight - 1
    /\ \E r \in RunResults : Process(r)
    /\ UNCHANGED <<cancelled, handle, awaited, mode, new_handle_calls,
                   run_calls, passed, rejected, first_cancel, dropped_at,
                   inner, chan>>

\* run() panics, at its first poll or after a suspension.
RunPanics ==
    /\ pc = "select"
    /\ \/ /\ run_state = "suspended"
          /\ run_calls' = run_calls
          /\ in_flight' = in_flight - 1
       \/ /\ CanStartRun
          /\ run_calls < MaxRuns
          /\ run_calls' = run_calls + 1
          /\ in_flight' = in_flight
    /\ pc' = "panicked"
    /\ run_state' = "idle"
    /\ UNCHANGED <<cb_arg, outcome, cancelled, handle, awaited, mode,
                   new_handle_calls, results, passed, rejected, first_cancel,
                   dropped_at,
                   inner, chan>>

\* The callback returns for the value it was given.
CallbackReturn ==
    /\ pc = "callback"
    /\ \E ret \in CallbackChoices(cb_arg[1]) :
        /\ pc' = MatchCallback(ret).pc
        /\ outcome' = MatchCallback(ret).out
        /\ rejected' = IF ret[1] = "Err" THEN <<ret[2]>> ELSE rejected
    /\ passed' = Append(passed, cb_arg[1])
    /\ cb_arg' = <<>>
    /\ UNCHANGED <<run_state, cancelled, handle, awaited, mode,
                   new_handle_calls, run_calls, results, first_cancel,
                   dropped_at,
                   in_flight, inner, chan>>

\* A caller-supplied callback panics (examples/send.rs).
CallbackPanics ==
    /\ pc = "callback"
    /\ mode = "spawn_with_callback"
    /\ pc' = "panicked"
    /\ passed' = Append(passed, cb_arg[1])
    /\ cb_arg' = <<>>
    /\ UNCHANGED <<run_state, outcome, cancelled, handle, awaited, mode,
                   new_handle_calls, run_calls, results, rejected,
                   first_cancel, dropped_at,
                   in_flight, inner, chan>>

\* The caller drops the handle without awaiting it.
DropHandle ==
    /\ handle = "held"
    /\ handle' = "dropped"
    /\ cancelled' = DropTokens
    /\ dropped_at' = run_calls
    /\ UNCHANGED <<pc, run_state, cb_arg, outcome, awaited, mode,
                   new_handle_calls, run_calls, results, passed, rejected,
                   first_cancel,
                   in_flight, inner, chan>>

\* The caller awaits the handle and the task has finished.
Await ==
    /\ handle = "held"
    /\ pc \in Stopped
    /\ awaited' = JoinOutput
    /\ handle' = "awaited"
    /\ UNCHANGED <<pc, run_state, cb_arg, outcome, cancelled, mode,
                   new_handle_calls, run_calls, results, passed, rejected,
                   first_cancel, dropped_at,
                   in_flight, inner, chan>>

Next ==
    \/ Spawn
    \/ TokenCancel
    \/ ParentCancel
    \/ HandleCancel
    \/ CancelBranch
    \/ RunReady
    \/ RunSuspends
    \/ RunResumes
    \/ RunPanics
    \/ CallbackReturn
    \/ CallbackPanics
    \/ DropHandle
    \/ Await

Spec == Init /\ [][Next]_vars

\* ------------------------------------------- the channel-backed service
\* MockCancellable of the integration tests: run() receives one item from
\* the channel whose sender is the Feeder that new_handle() hands out.

\* The Feeder lives in the service until new_handle() moves it into the
\* CancellableHandle, and is dropped with the handle.
SenderAlive == handle \in {"none", "held"}

\* Variant: the finished task keeps the callback and what it captured.
OwnerOf_TaskKeepsCallback(x) ==
    CASE pc = "created" -> "caller"
      [] pc \in Stopped -> IF x = "callback" THEN "task" ELSE "dropped"
      [] OTHER -> "task"

\* Who owns the service (`self`) and the callback: the caller until spawn
\* moves them into the `async move` block, then the task, and nobody once
\* the block has returned or unwound, which drops what it captured.
OwnerOf(x) ==
    CASE pc = "created" -> "caller"
      [] pc \in Stopped -> "dropped"
      [] OTHER -> "task"

\* The receiver is a field of the service, which the task owns and drops
\* when its async block ends.
ReceiverAlive == OwnerOf("service") # "dropped"

\* The sender captured by the callback is gone, so the receiving end of the
\* callback's output channel sees it closed.
OutputClosed == OwnerOf("callback") = "dropped"

\* Variant: recv() is not woken when the last sender is dropped.
RecvReady_IgnoresDrop == chan.queue # <<>>

\* recv() is ready when an item is queued or every sender is gone.
RecvReady == chan.queue # <<>> \/ ~SenderAlive

\* What a ready recv() returns.
Recv == IF chan.queue # <<>> THEN <<"Some", Head(chan.queue)>> ELSE <<"None">>

\* The channel after that recv().
AfterRecv ==
    IF chan.queue # <<>>
    THEN [chan EXCEPT !.queue = Tail(chan.queue),
                      !.consumed = Append(chan.consumed, Head(chan.queue))]
    ELSE chan

\* Variant: a negative item ends the loop instead of being skipped.
MockRun_NegativeBreaks(m) ==
    CASE m[1] = "None" -> {Break}
      [] m[2] < 0 -> {Break}
      [] m[2] = 0 -> {ErrOf(1)}
      [] OTHER -> {IF o[1] = "panic" THEN o ELSE Item(o[2]) :
                        o \in TimesTwo(m[2])}

\* MockCancellable::run: the match on what recv() returned. The error of
\* the zero arm, anyhow!("Received zero"), is error 1.
MockRun(m) ==
    CASE m[1] = "None" -> {Break}
      [] m[2] < 0 -> {Continue}
      [] m[2] = 0 -> {ErrOf(1)}
      [] OTHER -> {IF o[1] = "panic" THEN o ELSE Item(o[2]) :
                        o \in TimesTwo(m[2])}

\* Variant: a failed send hands back a default item, not the caller's.
FeederSend_LosesItem(q, it, open) ==
    IF open
    THEN [queue |-> Append(q, it), ret |-> OkUnit]
    ELSE [queue |-> q, ret |-> ErrOf(0)]

\* Feeder::send on UnboundedSender::send: enqueue while the receiver
\* exists, else Err(SendError(item)) mapped to Err(item).
FeederSend(q, it, open) ==
    IF open
    THEN [queue |-> Append(q, it), ret |-> OkUnit]
    ELSE [queue |-> q, ret |-> ErrOf(it)]

\* handle.send(item).await through DerefMut.
Send ==
    /\ handle = "held"
    /\ chan.attempts < MaxSends
    /\ \E it \in SendItems :
        LET r == FeederSend(chan.queue, it, ReceiverAlive) IN
        chan' = [chan EXCEPT
                    !.queue = r.queue,
                    !.sent = IF r.ret = OkUnit THEN Append(@, it) ELSE @,
                    !.last_send = <<it, r.ret>>,
                    !.attempts = @ + 1]
    /\ UNCHANGED <<pc, run_state, cb_arg, outcome, cancelled, handle, awaited,
                   mode, new_handle_calls, run_calls, results, passed,
                   rejected, first_cancel, dropped_at, in_flight, inner>>

\* The loop acts on what run() did with the received value: a result, or a
\* panic of the multiplication.
MockProcess(o) ==
    IF o[1] = "panic"
    THEN /\ pc' = "panicked"
         /\ run_state' = "idle"
         /\ UNCHANGED <<results, cb_arg, outcome>>
    ELSE Process(o)

\* The select! polls a fresh run() first and recv() is ready.
MockRunReady ==
    /\ pc = "select"
    /\ CanStartRun
    /\ RecvReady
    /\ run_calls' = run_calls + 1
    /\ chan' = AfterRecv
    /\ \E o \in MockRun(Recv) : MockProcess(o)
    /\ UNCHANGED <<cancelled, handle, awaited, mode, new_handle_calls, passed,
                   rejected, first_cancel, dropped_at, in_flight, inner>>

\* The select! polls a fresh run() and recv() has nothing yet; the same
\* poll also polls cancelled().
MockRunSuspends ==
    /\ pc = "select"
    /\ CanStartRun
    /\ ~RecvReady
    /\ run_calls' = run_calls + 1
    /\ IF cancelled[LoopToken]
       THEN /\ pc' = "done" /\ outcome' = OkUnit /\ run_state' = "idle"
            /\ in_flight' = Abandon(in_flight + 1)
       ELSE /\ pc' = pc /\ outcome' = outcome /\ run_state' = "suspended"
            /\ in_flight' = in_flight + 1
    /\ UNCHANGED <<cb_arg, cancelled, handle, awaited, mode, new_handle_calls,
                   results, passed, rejected, first_cancel, dropped_at,
                   inner, chan>>

\* The suspended recv() is woken by an item or by the last sender's drop.
MockRunResumes ==
    /\ in_flight > 0
    /\ RecvReady
    /\ in_flight' = in_flight - 1
    /\ chan' = AfterRecv
    /\ \E o \in MockRun(Recv) : MockProcess(o)
    /\ UNCHANGED <<cancelled, handle, awaited, mode, new_handle_calls,
                   run_calls, passed, rejected, first_cancel, dropped_at,
                   inner>>

\* The integration tests start the service with a root token and cancel
\* through it.
MockNext ==
    \/ Spawn
    \/ TokenCancel
    \/ CancelBranch
    \/ MockRunReady
    \/ MockRunSuspends
    \/ MockRunResumes
    \/ CallbackReturn
    \/ CallbackPanics
    \/ DropHandle
    \/ Await
    \/ Send

MockSpec == Init /\ [][MockNext]_vars

\* The runtime polls the task whenever it can make a step: at the top of
\* the loop, when recv() was woken, and through the synchronous callback.
MockTaskStep ==
    MockRunReady \/ MockRunSuspends \/ MockRunResumes \/ CallbackReturn

MockFairSpec == MockSpec /\ WF_vars(MockTaskStep)

\* ------------------------------------------------------------ type checking
TypeOK ==
    /\ pc \in {"created", "select", "callback", "done", "panicked"}
    /\ run_state \in {"idle", "suspended"}
    /\ handle \in {"none", "held", "dropped", "awaited"}
    /\ mode \in {"none", "spawn", "spawn_with_callback"}
    /\ run_calls \in 0..(MaxRuns + MaxSends + 1)
    /\ in_flight \in 0..1
    /\ chan.attempts \in 0..MaxSends
    /\ new_handle_calls \in 0..1
    /\ Len(results) <= run_calls
    /\ Len(passed) <= Len(results)

\* ------------------------------------------------------------------ helpers
RECURSIVE ItemsOf(_)
\* The values of the Item results in a sequence of run() results.
ItemsOf(s) ==
    IF s = <<>> THEN <<>>
    ELSE (IF Head(s)[1] = "Item" THEN <<Head(s)[2]>> ELSE <<>>)
            \o ItemsOf(Tail(s))

Returned(kind) == \E i \in 1..Len(results) : results[i][1] = kind
LastResult == results[Len(results)]
Resolved(out) == awaited = <<"Ok", out>>

\* -------------------------------------------------------------------- C1
\* C1: once a run() invocation has returned Err(e), the task has ended with
\* exactly Err(e), awaiting the handle yields Ok(Err(e)), and from then on
\* neither run() nor the callback is invoked again.
C1_FailurePropagated ==
    /\ [](\A i \in 1..Len(results) : results[i][1] = "Err" =>
            /\ i = Len(results)
            /\ pc = "done"
            /\ outcome = results[i]
            /\ (awaited = Pending \/ Resolved(results[i])))
    /\ [][Returned("Err") =>
            UNCHANGED <<run_calls, results, passed, cb_arg, pc, outcome>>]_vars

\* A failure returned by the second run() invocation has been awaited.
C1_Witness ==
    /\ Len(results) = 2
    /\ \E e \in Errors : LastResult = ErrOf(e) /\ Resolved(ErrOf(e))

\* -------------------------------------------------------------------- C2
\* C2: once a run() invocation has returned Break, the task has ended with
\* Ok(()), awaiting the handle yields Ok(Ok(())), and run() is not invoked
\* again.
C2_BreakSucceeds ==
    /\ [](\A i \in 1..Len(results) : results[i] = Break =>
            /\ i = Len(results)
            /\ pc = "done"
            /\ outcome = OkUnit
            /\ (awaited = Pending \/ Resolved(OkUnit)))
    /\ [][Returned("Break") => UNCHANGED <<run_calls, results, pc>>]_vars

\* A Break returned after an earlier result has been awaited.
C2_Witness ==
    /\ Len(results) >= 2
    /\ LastResult = Break
    /\ Resolved(OkUnit)

\* -------------------------------------------------------------------- C3
\* C3: if the token passed to spawn is cancelled, directly or by cancel(),
\* while the loop has not stopped, then a task that returns returns Ok(()).
C3_CancelledYieldsSuccess ==
    (/\ first_cancel # <<>>
     /\ first_cancel[1] \in {"token", "handle"}
     /\ first_cancel[2] \notin Stopped
     /\ pc = "done")
        => outcome = OkUnit

\* -------------------------------------------------------------------- C4
\* C4: the values handed to the callback are exactly the values of the Item
\* results of run(), in the same order, none duplicated, skipped or
\* reordered; Item(1), Item(2), Break delivers <<1, 2>> and ends with Ok(()).
C4_CallbackSeesItemsInOrder ==
    /\ passed \o cb_arg = ItemsOf(results)
    /\ (pc = "callback") = (cb_arg # <<>>)
    /\ results = <<Item(1), Item(2), Break>> =>
            passed = <<1, 2>> /\ outcome = OkUnit

\* Item(1), Item(2), Break has run to completion.
C4_Witness ==
    /\ results = <<Item(1), Item(2), Break>>
    /\ passed = <<1, 2>>
    /\ Resolved(OkUnit)

\* -------------------------------------------------------------------- C5
\* C5: the step in which run() returns Continue invokes no callback and
\* leaves the loop running: the task is back at the select! with no result,
\* about to race cancellation against a new run() invocation.
C5_ContinueKeepsLooping ==
    [][(Len(results') = Len(results) + 1
            /\ results'[Len(results')] = Continue) =>
         /\ pc' = "select"
         /\ run_state' = "idle"
         /\ cb_arg' = <<>>
         /\ passed' = passed
         /\ outcome' = Pending]_vars

\* A Continue was followed by another run() invocation that produced a value.
C5_Witness ==
    /\ Len(results) >= 2
    /\ results[1] = Continue
    /\ results[2][1] = "Item"
    /\ passed # <<>>

C7_RejectionIsTheError ==
    (rejected # <<>> /\ awaited # Pending)
        => Resolved(ErrOf(rejected[1]))

\* -------------------------------------------------------------------- C8
\* C8: if cancel() is called on the handle while the loop has not stopped,
\* awaiting the handle of a task that returned yields Ok(Ok(())); the token
\* stays set once set.
C8_HandleCancelYieldsSuccess ==
    /\ (first_cancel # <<>> => cancelled[LoopToken])
    /\ (/\ first_cancel # <<>>
        /\ first_cancel[1] = "handle"
        /\ first_cancel[2] \notin Stopped
        /\ awaited # Pending
        /\ awaited # <<"JoinError">>)
            => Resolved(OkUnit)

\* -------------------------------------------------------------------- C9
\* C9: the step that drops the handle changes neither the tokens nor the
\* background task, and a task that has ended after its handle was dropped
\* and without cancellation ended on its own: run() returned Break or Err,
\* or the callback rejected a value.
C9_DropDoesNotCancel ==
    /\ [][(handle = "held" /\ handle' = "dropped") =>
            UNCHANGED <<cancelled, pc, run_state, cb_arg, outcome,
                        run_calls, results, passed>>]_vars
    /\ []((handle = "dropped" /\ pc = "done" /\ ~cancelled[LoopToken]) =>
            \/ rejected # <<>>
            \/ (results # <<>> /\ LastResult[1] \in {"Break", "Err"}))

\* After the drop the loop went on calling run() and the callback, with no
\* cancellation.
C9_Witness ==
    /\ handle = "dropped"
    /\ dropped_at >= 0
    /\ run_calls >= dropped_at + 2
    /\ pc = "select"
    /\ passed # <<>>
    /\ \A t \in TokenIds : ~cancelled[t]

\* -------------------------------------------------------------------- C10
\* C10: when a race begins with the token already set, that race does not
\* process a run() result: no step taken from the top of the loop with the
\* token set records one.
C10_CancelledRaceTakesCancelBranch ==
    [][(pc = "select" /\ run_state = "idle" /\ cancelled[LoopToken]) =>
            results' = results]_vars

\* -------------------------------------------------------------------- C11
\* C11: new_handle() is invoked exactly once per started service, in the
\* spawn call and so before any run() invocation, and never again; the
\* handle reached through the CancellableHandle is the one that invocation
\* returned.
C11_HandleBuiltOnceBeforeRun ==
    /\ [](/\ new_handle_calls = (IF pc = "created" THEN 0 ELSE 1)
          /\ (run_calls > 0 => new_handle_calls = 1)
          /\ (pc = "created" => run_calls = 0 /\ Deref = <<>>)
          /\ (pc # "created" => Deref = <<1>>))
    /\ [][new_handle_calls' # new_handle_calls =>
            /\ new_handle_calls = 0
            /\ run_calls = 0
            /\ run_calls' = 0]_vars

\* The loop has called run() several times on a service with one handle.
C11_Witness ==
    /\ run_calls >= 2
    /\ new_handle_calls = 1
    /\ handle = "held"
    /\ Deref = <<1>>

\* -------------------------------------------------------------------- C12
\* C12: a task that panicked has no inner outcome and awaiting its handle
\* yields the JoinError, which is yielded for no other task; a failure
\* returned by run() is awaited as Ok(Err(e)).
C12_TwoLevelResult ==
    /\ (pc = "panicked" =>
            /\ outcome = Pending
            /\ (awaited = Pending \/ awaited = <<"JoinError">>))
    /\ (awaited = <<"JoinError">> => pc = "panicked")
    /\ (Returned("Err") =>
            /\ pc = "done"
            /\ awaited # <<"JoinError">>
            /\ (awaited = Pending \/ awaited = <<"Ok", LastResult>>))

\* The callback panicked on the only value produced, and the handle was
\* awaited.
C12_Witness ==
    /\ awaited = <<"JoinError">>
    /\ run_calls = 1
    /\ Len(results) = 1
    /\ Len(passed) = 1

\* -------------------------------------------------------------------- C13
\* C13: at most one run() future exists at any time, it exists only while
\* the task waits in the select!, and none exists while the callback runs.
C13_OneRunAtATime ==
    /\ in_flight \in {0, 1}
    /\ (in_flight = 1) = (pc = "select" /\ run_state = "suspended")
    /\ (pc = "callback" => in_flight = 0 /\ run_state = "idle")
    /\ (pc \in Stopped => in_flight = 0)

\* A run() is pending after an earlier one produced a value for the callback.
C13_Witness ==
    /\ in_flight = 1
    /\ passed # <<>>
    /\ run_calls >= 2

\* -------------------------------------------------------------------- C14
\* C14: under spawn the callback step is the step spawn_with_callback takes
\* for a callback that returned Ok(()): the value is accepted and the loop
\* goes on; no value is ever rejected, and a loop that has ended ended on
\* Break, on a failure or on cancellation.
C14_SpawnAcceptsEverything ==
    /\ [](mode = "spawn" =>
            /\ rejected = <<>>
            /\ (pc = "done" =>
                    \/ cancelled[LoopToken]
                    \/ (results # <<>> /\ LastResult[1] \in {"Break", "Err"})))
    /\ [][(mode = "spawn" /\ pc = "callback" /\ pc' # pc) =>
            /\ pc' = MatchCallback(OkUnit).pc
            /\ outcome' = MatchCallback(OkUnit).out
            /\ passed' = Append(passed, cb_arg[1])
            /\ run_calls' = run_calls]_vars

\* Under spawn two values were produced and dropped, then Break ended it.
C14_Witness ==
    /\ mode = "spawn"
    /\ Len(passed) = 2
    /\ LastResult = Break
    /\ Resolved(OkUnit)

\* -------------------------------------------------------------------- C15
\* C15: cancelling the parent token cancels the token derived from it, and
\* a loop that was running on the derived token then returns Ok(()).
C15_ParentCancelYieldsSuccess ==
    /\ (cancelled["parent"] => cancelled[LoopToken])
    /\ (/\ first_cancel # <<>>
        /\ first_cancel[1] = "parent"
        /\ first_cancel[2] \notin Stopped
        /\ pc = "done")
            => outcome = OkUnit

\* -------------------------------------------------------------------- C17
\* C17: the task has an outcome exactly when the loop has ended, it is
\* Ok(()) or the Err that the last run() returned, and once the task has
\* ended neither it nor the run() and callback invocations change.
C17_OneTerminalOutcome ==
    /\ []((pc = "done") = (outcome # Pending))
    /\ [](pc = "done" =>
            \/ outcome = OkUnit
            \/ (results # <<>> /\ LastResult[1] = "Err"
                    /\ outcome = LastResult))
    /\ [][(pc \in Stopped) =>
            UNCHANGED <<pc, outcome, run_calls, results, passed, cb_arg,
                        in_flight>>]_vars

\* A failed service was cancelled afterwards and then awaited: still Err.
C17_Witness ==
    /\ first_cancel # <<>>
    /\ first_cancel[2] = "done"
    /\ \E e \in Errors : Resolved(ErrOf(e))

\* -------------------------------------------------------------------- C18
\* C18: a loop that has ended has a cause (the token is set, run() returned
\* Break or Err, or the callback rejected a value); a started task without
\* a cause that did not panic is still in the loop and its handle pending.
StopCause ==
    \/ cancelled[LoopToken]
    \/ rejected # <<>>
    \/ (results # <<>> /\ LastResult[1] \in {"Break", "Err"})

C18_StopsOnlyForACause ==
    /\ (pc = "done" => StopCause)
    /\ ((pc \notin {"created", "panicked"} /\ ~StopCause) =>
            /\ pc \in {"select", "callback"}
            /\ outcome = Pending
            /\ awaited = Pending)

\* After an accepted value and a Continue the loop waits in a third run().
C18_Witness ==
    /\ ~StopCause
    /\ Len(results) = 2
    /\ passed # <<>>
    /\ in_flight = 1
    /\ handle = "held"
    /\ awaited = Pending

\* -------------------------------------------------------------------- C19
\* C19: a step that ends the loop while a run() is suspended, without a
\* result from it, is the cancellation branch: the token is set, the run()
\* future is dropped, the callback is not invoked and the task returns
\* Ok(()); after the end no result and no callback invocation is recorded,
\* and a task that ended with a run() that never returned resolves
\* Ok(Ok(())).
C19_CancelAbandonsRun ==
    /\ [][(in_flight = 1 /\ pc' = "done" /\ results' = results) =>
            /\ cancelled[LoopToken]
            /\ outcome' = OkUnit
            /\ in_flight' = 0
            /\ passed' = passed
            /\ cb_arg' = <<>>]_vars
    /\ [][pc = "done" => UNCHANGED <<results, passed, cb_arg>>]_vars
    /\ []((pc = "done" /\ run_calls > Len(results)) =>
            /\ outcome = OkUnit
            /\ (awaited = Pending \/ Resolved(OkUnit)))

\* The token was set while the only run() was suspended; the handle resolved.
C19_Witness ==
    /\ first_cancel # <<>>
    /\ first_cancel[3] = "suspended"
    /\ run_calls = 1
    /\ results = <<>>
    /\ passed = <<>>
    /\ Resolved(OkUnit)

\* -------------------------------------------------------------------- C16
\* C16: a send(item) step either returns Ok(()) and appends the item once
\* to the service's queue, or returns Err(item) with that same item and
\* leaves the queue alone; it fails exactly when the task has ended, which
\* is when the service and its receiver are gone.
C16_SendAllOrNothing ==
    [][chan'.attempts = chan.attempts + 1 =>
        LET it == chan'.last_send[1]
            ret == chan'.last_send[2]
        IN  \/ /\ ret = OkUnit
               /\ pc \notin Stopped
               /\ chan'.queue = Append(chan.queue, it)
               /\ chan'.sent = Append(chan.sent, it)
            \/ /\ ret = ErrOf(it)
               /\ pc \in Stopped
               /\ chan'.queue = chan.queue
               /\ chan'.sent = chan.sent]_vars

\* A send succeeded while the loop ran and a later send of 2 came back.
C16_Witness ==
    /\ chan.sent # <<>>
    /\ chan.last_send = <<2, ErrOf(2)>>
    /\ chan.queue = <<>>
    /\ pc = "done"

\* -------------------------------------------------------------------- C20
\* C20 as stated: every positive item n that a run() has consumed made it
\* return Item(2 * n).
C20_PositiveItemsDoubled ==
    \A i \in 1..Len(chan.consumed) :
        chan.consumed[i] > 0 =>
            /\ i <= Len(results)
            /\ results[i][1] = "Item"
            /\ results[i][2] > 0
            /\ results[i][2] - chan.consumed[i] = chan.consumed[i]

\* C20 as amended: items are consumed in send order, one per run(); a
\* negative item makes run() return Continue; 0 makes it fail, which ends
\* the loop with that failure; a positive item n whose double fits an i32
\* makes it return Item(2 * n); the values reach the callback in that order;
\* only the run() of an item whose double overflows may end without a
\* result; and every item sent is eventually consumed unless the task ends.
C20_ItemsDoubledInOrder ==
    /\ [](/\ chan.sent = chan.consumed \o chan.queue
          /\ Len(chan.consumed) <= run_calls
          /\ passed \o cb_arg = ItemsOf(results)
          /\ \A i \in 1..Len(chan.consumed) :
                LET n == chan.consumed[i] IN
                /\ i > Len(results) =>
                        /\ pc = "panicked"
                        /\ i = Len(chan.consumed)
                        /\ n >= HalfI32
                /\ i <= Len(results) =>
                        /\ (n < 0 => results[i] = Continue)
                        /\ (n = 0 => /\ results[i][1] = "Err"
                                     /\ i = Len(results)
                                     /\ pc = "done"
                                     /\ outcome = results[i])
                        /\ ((n > 0 /\ n < HalfI32) =>
                                results[i] = Item(n * 2)))
    /\ \A i \in 1..MaxSends :
            [](Len(chan.sent) >= i =>
                <>(Len(chan.consumed) >= i \/ pc \in Stopped))

\* -1, 1, 2 were sent; 2 and 4 reached the callback, with no cancellation.
C20_Witness ==
    /\ chan.consumed = <<-1, 1, 2>>
    /\ passed = <<2, 4>>
    /\ pc = "select"
    /\ \A t \in TokenIds : ~cancelled[t]

C23_PreCancelledYieldsSuccess ==
    (/\ first_cancel # <<>>
     /\ first_cancel[2] = "created"
     /\ pc # "created")
        => /\ new_handle_calls = 1
           /\ Deref = <<1>>
           /\ handle # "none"
           /\ pc = "done" => outcome = OkUnit

====
